---------------------------- MODULE Spec2Model ----------------------------
(***************************************************************************)
(* State-machine model of the tap2go embedded bike client.                 *)
(*                                                                         *)
(*   src/embedded/bike.py                               Bike (protocol)    *)
(*   src/embedded/serializers.py                        JSON-RPC schemas   *)
(*   src/Embedded System/embedded/embedded/__main__.py  runner, threads    *)
(*   src/Embedded System/embedded/embedded/fona808.py   FONA808 GPS reader *)
(*                                                                         *)
(* Each thread target of __main__.py (handle_web/runner, handle_gps_       *)
(* polling, handle_lighting, GPS_update) is a process with its own program *)
(* counter; a step runs from one suspension point (await, sleep, lock      *)
(* acquisition, serial I/O) to the next.  Python exceptions are modelled   *)
(* as what they do to control flow: an exception no handler catches ends   *)
(* the thread ("crashed") and the name of the exception is kept.           *)
(*                                                                         *)
(* Abstractions: key material and signatures (ed25519) are opaque values;  *)
(* the HTTP and websocket peers are the environment, which picks every     *)
(* response, inbound frame and disconnect.                                 *)
(***************************************************************************)
EXTENDS Integers, Sequences, FiniteSets, TLC

(***************************************************************************)
(* Bounds of the model (not program constants).                            *)
(***************************************************************************)
\* inbound websocket frames the backend sends over the life of the process
MaxFrames == 2
\* inbound frames buffered by the websocket and not yet read
MaxInbox == 1
\* calls of create_ticket the runner makes
MaxAuth == 2
\* theft alerts counted
MaxAlerts == 2
\* passes of the Geofence Monitor counted
MaxTicks == 2
\* fraction digits of a coordinate field
MaxFraction == 5
\* location updates the push loop sends in a run
MaxPushes == 2

VARIABLES
    \* ---- shared -------------------------------------------------------
    quit,          \* QUIT_EVENT.is_set()                    __main__.py:46
    \* ---- Bike (bike.py:24-35) -----------------------------------------
    locked,        \* bike.locked
    anchor,        \* bike.lockedLongitude / bike.lockedLattitude
    bikeCoords,    \* bike.longitude / bike.lattitude
    bikeSocket,    \* bike.socket: "None" or "ws" (the websocket object)
    \* ---- Session Manager: runner / bike_handler -----------------------
    smPc,          \* where the runner coroutine is suspended
    smErr,         \* the exception that ended the runner, "none" otherwise
    authErr,       \* e.args[0] of the AuthError being handled / that ended the runner
    authAttempts,  \* calls of create_ticket so far
    regAttempts,   \* calls of register_bike so far
    wsState,       \* the websocket of the current ws_connect: none/open/closed
    netUp,         \* the websocket's transport is alive
    inbox,         \* frames received by the transport, not yet read by the loop
    framesIn,      \* frames the backend has sent so far
    msg,           \* the loop variable msg of bike_handler: the frame last read
    sent,          \* what the client has written to the current websocket
    \* ---- FONA808 (fona808.py:117-120) and the GPS module ---------------
    gpsStatus,     \* GPS_MODULE._status
    gpsLock,       \* who holds GPS_MODULE._lock: free / polling / lighting
    serialOpen,    \* GPS_MODULE._serial is open
    wire,          \* commands written to the serial link whose response is unread
    \* ---- handle_gps_polling thread (__main__.py:71-83) -----------------
    pPc,           \* where the polling thread is
    pErr,          \* the exception that ended it, "none" otherwise
    pLines,        \* `lines` of get_gps_status: the markers the response holds
    GPS_STATUS,    \* the module global GPS_STATUS
    GPSLOCATION,   \* the module global GPSLOCATION
    \* ---- handle_lighting thread (__main__.py:86-108) -------------------
    lPc,           \* where the lighting thread is
    lErr,          \* the exception that ended it, "none" otherwise
    lReading,      \* what get_location returned to it, "none" before
    \* ---- GPS_update thread (__main__.py:216-230) -----------------------
    gPc,           \* where the geofence thread is
    alerts,        \* theft alerts raised ('bikeStolen') so far
    ticks,         \* history: passes through the try block so far (saturates)
    \* ---- handler.__call__ (__main__.py:203-213) and the status LED -------
    hPc,           \* where the shutdown handler is: idle / join / done
    ledOpen,       \* status_led has not been closed
    \* ---- GPSReading's pure functions, applied to an input ---------------
    course,        \* GPSReading.course, in half degrees
    heading,       \* GPSReading.heading of that course, "none" before
    coordIn,       \* a coordinate field of the AT response: which parser, the text
    coordOut,      \* what the parser returned for it, NoValue before
    \* ---- Bike.update_loop (bike.py:78-93) -----------------------------
    uPc,           \* where the telemetry push is: off (never started) / loop / sleep
    uErr,          \* the exception that ended it, "none" otherwise
    \* ---- environment and history -------------------------------------
    gpsPos,        \* where the bike is: the position a location query reports
    lockPos,       \* history: gpsPos when the last lock Request was handled
    called         \* history: the Bike handler the frame last read was passed to

webVars == <<locked, anchor, bikeCoords, bikeSocket, smPc, smErr, authErr,
             authAttempts, regAttempts, wsState, netUp, inbox, framesIn, msg, sent,
             lockPos, called>>
readerVars == <<gpsStatus, gpsLock, serialOpen, wire>>
pollingVars == <<pPc, pErr, pLines, GPS_STATUS, GPSLOCATION>>
lightingVars == <<lPc, lErr, lReading>>
geoVars == <<gPc, alerts, ticks>>
handlerVars == <<hPc, ledOpen>>
fnVars == <<course, heading, coordIn, coordOut>>
pushVars == <<uPc, uErr>>
gpsVars == <<readerVars, pollingVars, lightingVars>>

\* everything the Session Manager and the Protocol Engine leave alone
notWeb == <<gpsVars, geoVars, gpsPos, handlerVars, fnVars, pushVars, called>>

vars == <<quit, webVars, gpsVars, geoVars, gpsPos, handlerVars, fnVars, pushVars>>

(***************************************************************************)
(* JSON values and JSON-RPC messages.  A value is tagged with its JSON     *)
(* type; Absent marks a key the object does not have.                      *)
(***************************************************************************)
Absent == [t |-> "absent", n |-> 0, s |-> ""]
JInt(i) == [t |-> "int", n |-> i, s |-> ""]
JStr(x) == [t |-> "str", n |-> 0, s |-> x]
JBool(b) == [t |-> "bool", n |-> IF b THEN 1 ELSE 0, s |-> ""]

Obj(j, m, i, r) == [jsonrpc |-> j, method |-> m, id |-> i, result |-> r]
NoObj == Obj(Absent, Absent, Absent, Absent)

\* aiohttp WSMessage: its type and, for a TEXT frame, what msg.json() gives
TextObject(o) == [type |-> "TEXT", body |-> "object", obj |-> o]
TextUnparsable == [type |-> "TEXT", body |-> "unparsable", obj |-> NoObj]
TextNumber == [type |-> "TEXT", body |-> "number", obj |-> NoObj]
BinaryFrame == [type |-> "BINARY", body |-> "", obj |-> NoObj]
CloseFrame == [type |-> "CLOSE", body |-> "", obj |-> NoObj]
NoFrame == [type |-> "NONE", body |-> "", obj |-> NoObj]

ReqLock1 == TextObject(Obj(JStr("2.0"), JStr("lock"), JInt(1), Absent))
ReqUnlock2 == TextObject(Obj(JStr("2.0"), JStr("unlock"), JInt(2), Absent))
ReqLockStrId == TextObject(Obj(JStr("2.0"), JStr("lock"), JStr("2"), Absent))
ReqLockNoId == TextObject(Obj(JStr("2.0"), JStr("lock"), Absent, Absent))
ReqNoJsonrpc == TextObject(Obj(Absent, JStr("unlock"), JInt(1), Absent))
ReqBadId == TextObject(Obj(JStr("2.0"), JStr("unlock"), JStr("x"), Absent))
ReqMethodNotString == TextObject(Obj(JStr("2.0"), JInt(5), JInt(1), Absent))
ReqPing == TextObject(Obj(JStr("2.0"), JStr("ping"), JInt(1), Absent))
ReqPingNoId == TextObject(Obj(JStr("2.0"), JStr("ping"), Absent, Absent))
RespOk == TextObject(Obj(JStr("2.0"), Absent, JInt(1), JBool(TRUE)))
RespEmpty == TextObject(NoObj)

Frames == {ReqLock1, ReqUnlock2, ReqLockStrId, ReqLockNoId, ReqNoJsonrpc, ReqBadId,
           ReqMethodNotString, ReqPing, ReqPingNoId, RespOk, RespEmpty,
           TextUnparsable, TextNumber, BinaryFrame, CloseFrame}

(***************************************************************************)
(* marshmallow fields (serializers.py:22-39).                              *)
(***************************************************************************)
\* int() of a string: the decimal strings of the model's frames
IsNumericStr(x) == x \in {"1", "2"}
StrToInt(x) == CASE x = "1" -> 1 [] x = "2" -> 2 [] OTHER -> 0

\* fields.String deserialization accepts a JSON string only
StringFieldOk(v) == v.t = "str"
\* fields.Int deserialization: int(value); a non-numeric string is invalid
IntFieldOk(v) == v.t = "int" \/ (v.t = "str" /\ IsNumericStr(v.s))
IntFieldLoad(v) == IF v.t = "int" THEN v.n ELSE StrToInt(v.s)

\* JsonRPCRequest().load(data) raises no ValidationError
JsonRPCRequestValid(o) ==
    /\ o.jsonrpc # Absent /\ StringFieldOk(o.jsonrpc)
    /\ o.method # Absent /\ StringFieldOk(o.method)
    /\ o.id # Absent => IntFieldOk(o.id)

\* JsonRPCResponse().load(data) raises no ValidationError
JsonRPCResponseValid(o) ==
    /\ o.jsonrpc # Absent /\ StringFieldOk(o.jsonrpc)
    /\ o.id # Absent /\ IntFieldOk(o.id)

(***************************************************************************)
(* What the client writes to the websocket.                                *)
(***************************************************************************)
Out(k, i, r) == [kind |-> k, id |-> i, result |-> r]
PublicKeyBytes == Out("public_key", 0, FALSE)
SignatureBytes == Out("signature", 0, FALSE)
LockedNotice(b) == Out("locked", 0, b)
\* JsonRPCResponse().dump({"jsonrpc": "2.0", "id": request_id, "result": r})
Response(i, r) == Out("response", i, r)

(***************************************************************************)
(* The backend's answers, as far as the client looks at them.              *)
(***************************************************************************)
\* POST /connect: resp.status and resp.reason
TicketOk == [status |-> 200, reason |-> "OK"]
TicketUnknownKey == [status |-> 401, reason |-> "Identity not recognized."]
TicketOtherError == [status |-> 500, reason |-> "Internal Server Error"]
TicketResponses == {TicketOk, TicketUnknownKey, TicketOtherError}

\* the confirmation string, as confirmation.split(":")
ConfirmOk == <<"success">>
ConfirmNotOnServer == <<"fail", "public key not on server">>
ConfirmBadSignature == <<"fail", "signature rejected">>
ConfirmBareFail == <<"fail">>
Confirmations == {ConfirmOk, ConfirmNotOnServer, ConfirmBadSignature, ConfirmBareFail}

\* the reason runner registers the bike for
NotOnServer == "public key not on server"

(***************************************************************************)
(* GPS: fix status (fona808.py:99-107), the status markers of the AT        *)
(* response (fona808.py:130-137) and positions.  A position is              *)
(* <<longitude, latitude>> in hundredths of a degree, close to the equator. *)
(***************************************************************************)
GPSStatus == {"UNKNOWN", "NO_FIX", "FIX_2D", "FIX_3D"}
\* GPSStatus.locked_states()
LockedStates == {"FIX_2D", "FIX_3D"}
Markers == {"Location Unknown", "Location Not Fix", "Location 2D Fix", "Location 3D Fix"}

Origin == <<0, 0>>
Nearby == <<0, 1>>
FarAway == <<0, 10>>
Positions == {Origin, Nearby, FarAway}
\* no position: an attribute or a name that was never assigned
NoPos == <<>>

(***************************************************************************)
(* GPSReading (fona808.py:9-96): the heading and the coordinate parsers.   *)
(* A course is counted in half degrees, so that the courses halfway        *)
(* between two octants are inputs.  A text is a sequence of characters.    *)
(***************************************************************************)
\* GPSReading.directions
Directions == <<"N", "NE", "E", "SE", "S", "SW", "W", "NW">>
\* 360, in half degrees
FullCircle == 720

\* Python's round() of num / den: to the nearest integer, a tie to the even one
Round(num, den) ==
    LET q == num \div den
        r == num % den
    IN  IF 2 * r < den THEN q
        ELSE IF 2 * r > den THEN q + 1
        ELSE IF q % 2 = 0 THEN q ELSE q + 1

\* a heading that truncates instead of rounding
HeadingTruncating(c) ==
    Directions[((c \div (FullCircle \div Len(Directions))) % Len(Directions)) + 1]

\* directions[round(course / (360 / len(directions))) % len(directions)]
Heading(c) ==
    Directions[(Round(c, FullCircle \div Len(Directions)) % Len(Directions)) + 1]

DigitChars == <<"0", "1", "2", "3", "4", "5", "6", "7", "8", "9">>
\* int() of one decimal character
DigitValue(ch) == (CHOOSE d \in 1..10 : DigitChars[d] = ch) - 1

RECURSIVE DigitsToInt(_)
\* int() of a text of decimal characters
DigitsToInt(t) ==
    IF t = <<>> THEN 0
    ELSE 10 * DigitsToInt(SubSeq(t, 1, Len(t) - 1)) + DigitValue(t[Len(t)])

RECURSIVE Zfill(_, _)
\* str.zfill(width) of a text without a sign
Zfill(t, width) == IF Len(t) >= width THEN t ELSE Zfill(<<"0">> \o t, width)

\* t[:n] and t[n:]
Prefix(t, n) == SubSeq(t, 1, IF n < Len(t) THEN n ELSE Len(t))
Suffix(t, n) == SubSeq(t, n + 1, Len(t))

\* where the "." of a text is (Len + 1 when it has none)
DotAt(t) == IF \E i \in 1..Len(t) : t[i] = "."
               THEN CHOOSE i \in 1..Len(t) : t[i] = "." /\ \A j \in 1..(i - 1) : t[j] # "."
               ELSE Len(t) + 1

\* float() of a text "III.FFF": the number is units / 10^scale
FloatOf(t) ==
    LET whole == SubSeq(t, 1, DotAt(t) - 1)
        frac == SubSeq(t, DotAt(t) + 1, Len(t))
    IN  [units |-> DigitsToInt(whole \o frac), scale |-> Len(frac)]

RECURSIVE Pow10(_)
Pow10(n) == IF n = 0 THEN 1 ELSE 10 * Pow10(n - 1)

\* sign * (degrees + minutes / 60), kept exact: in minutes, times 10^scale
DecimalDegrees(negative, degrees, minutes) ==
    [set |-> TRUE,
     total |-> (IF negative THEN -1 ELSE 1)
                   * (degrees * 60 * Pow10(minutes.scale) + minutes.units),
     scale |-> minutes.scale]
NoValue == [set |-> FALSE, total |-> 0, scale |-> 0]

\* the widths latitude.zfill(10) and longitude.zfill(11) pad to
LatitudeWidth == 10
LongitudeWidth == 11
\* the degree digits: latitude[:2], longitude[:3]
LatitudeDegreeDigits == 2
LongitudeDegreeDigits == 3

\* GPSReading._parse_latitude (fona808.py:44-63)
ParseLatitude(text) ==
    LET negative == text[1] = "-"
        t == IF negative THEN Tail(text) ELSE text
        padded == Zfill(t, LatitudeWidth)
    IN  DecimalDegrees(negative,
                       DigitsToInt(Prefix(padded, LatitudeDegreeDigits)),
                       FloatOf(Suffix(padded, LatitudeDegreeDigits)))

\* GPSReading._parse_longitude (fona808.py:65-84): zfill sits inside `if negative`
ParseLongitude(text) ==
    LET negative == text[1] = "-"
        t == IF negative THEN Zfill(Tail(text), LongitudeWidth) ELSE text
    IN  DecimalDegrees(negative,
                       DigitsToInt(Prefix(t, LongitudeDegreeDigits)),
                       FloatOf(Suffix(t, LongitudeDegreeDigits)))

\* GPSReading.__init__ lines 24-25: the field goes to its parser
ParseCoordinate(c) ==
    IF c.kind = "latitude" THEN ParseLatitude(c.text) ELSE ParseLongitude(c.text)

\* coordinate fields as the module prints them: sign, integer part, ".", fraction
RECURSIVE TextsOver(_, _)
TextsOver(chars, n) ==
    IF n = 0 THEN {<<>>}
    ELSE {<<ch>> \o t : ch \in chars, t \in TextsOver(chars, n - 1)}
FractionChars == {"2", "3", "4", "5"}
Fractions == UNION {TextsOver(FractionChars, n) : n \in 1..MaxFraction}
Signs == {<<>>, <<"-">>}
LatitudeIntegerParts == {<<"5", "2", "1", "3">>, <<"0", "7", "0", "5">>}
LongitudeIntegerParts == {<<"0", "0", "2", "1", "3">>, <<"1", "1", "2", "5", "9">>}
CoordinateFields ==
    {[kind |-> "latitude", text |-> sg \o ip \o <<".">> \o fr] :
        sg \in Signs, ip \in LatitudeIntegerParts, fr \in Fractions}
    \cup
    {[kind |-> "longitude", text |-> sg \o ip \o <<".">> \o fr] :
        sg \in Signs, ip \in LongitudeIntegerParts, fr \in Fractions}
NoField == [kind |-> "none", text |-> <<>>]

TypeOK ==
    /\ quit \in BOOLEAN
    /\ locked \in BOOLEAN
    /\ anchor \in Positions \cup {NoPos}
    /\ bikeCoords \in Positions \cup {NoPos}
    /\ bikeSocket \in {"None", "ws"}
    /\ smPc \in {"loop", "ticket", "ws_connect", "confirm", "recv", "register",
                 "done", "crashed"}
    /\ smErr \in {"none", "TypeError", "KeyError", "IndexError",
                  "ConnectionResetError", "ClientConnectorError"}
    /\ authErr \in {"none", NotOnServer, "signature rejected"}
    /\ authAttempts \in 0..MaxAuth
    /\ regAttempts \in 0..MaxAuth
    /\ wsState \in {"none", "open", "closed"}
    /\ netUp \in BOOLEAN
    /\ inbox \in Seq(Frames) /\ Len(inbox) <= MaxInbox
    /\ framesIn \in 0..MaxFrames
    /\ msg \in Frames \cup {NoFrame}
    /\ sent \in Seq([kind : {"public_key", "signature", "locked", "response",
                             "location_update"},
                     id : 0..2, result : BOOLEAN])
    /\ gpsStatus \in GPSStatus
    /\ gpsLock \in {"free", "polling", "lighting"}
    /\ serialOpen \in BOOLEAN
    /\ wire \in Seq({"CGPSSTATUS", "CGPSINF"}) /\ Len(wire) <= 2
    /\ pPc \in {"loop", "acquire", "write", "read", "classify", "location", "done",
                "crashed"}
    /\ pErr \in {"none", "PortNotOpenError"}
    /\ pLines \subseteq Markers
    /\ GPS_STATUS \in GPSStatus
    /\ GPSLOCATION \in {"''"}
    /\ lPc \in {"loop", "acquire", "write", "read", "done", "crashed"}
    /\ lErr \in {"none", "GPSLockError", "PortNotOpenError", "ValueError", "NameError"}
    /\ lReading \in Positions \cup {NoPos}
    /\ gPc \in {"loop", "sleep", "done"}
    /\ alerts \in 0..MaxAlerts
    /\ gpsPos \in Positions
    /\ lockPos \in Positions \cup {NoPos}
    /\ ticks \in 0..MaxTicks
    /\ hPc \in {"idle", "join", "done"}
    /\ ledOpen \in BOOLEAN
    /\ uPc \in {"off", "loop", "sleep", "crashed"}
    /\ uErr \in {"none", "AttributeError", "ConnectionResetError"}
    /\ called \in {"none", "handle_request", "handle_response"}
    /\ course \in 0..FullCircle
    /\ heading \in {"none"} \cup {Directions[i] : i \in 1..Len(Directions)}
    /\ coordIn \in CoordinateFields \cup {NoField}
    /\ coordOut.set \in BOOLEAN

(***************************************************************************)
(* Init: the module globals of __main__.py and Bike(117, seed).            *)
(***************************************************************************)
InitProgram ==
    /\ quit = FALSE
    /\ locked = TRUE             \* Bike.__init__(..., locked=True)
    /\ anchor = NoPos            \* lockedLongitude/lockedLattitude: annotations only
    /\ bikeCoords = NoPos        \* longitude/lattitude: set by updateCoordinates only
    /\ bikeSocket = "None"
    /\ smPc = "loop"
    /\ smErr = "none"
    /\ authErr = "none"
    /\ authAttempts = 0
    /\ regAttempts = 0
    /\ wsState = "none"
    /\ netUp = FALSE
    /\ inbox = <<>>
    /\ framesIn = 0
    /\ msg = NoFrame
    /\ sent = <<>>
    /\ gpsStatus = "UNKNOWN"     \* FONA808.__init__; _power_on has run
    /\ gpsLock = "free"
    /\ serialOpen = TRUE
    /\ wire = <<>>
    /\ pPc = "loop"
    /\ pErr = "none"
    /\ pLines = {}
    /\ GPS_STATUS = "UNKNOWN"    \* GPS_STATUS = GPSStatus.UNKNOWN
    /\ GPSLOCATION = "''"        \* GPSLOCATION = ''
    /\ lPc = "loop"
    /\ lErr = "none"
    /\ lReading = NoPos
    /\ gPc = "loop"
    /\ alerts = 0
    /\ gpsPos = Origin
    /\ lockPos = NoPos
    /\ ticks = 0
    /\ hPc = "idle"
    /\ ledOpen = TRUE           \* status_led = RGBLED(13, 19, 26)
    /\ called = "none"
    /\ uErr = "none"

\* no GPSReading has been built
InitReading ==
    /\ course = 0
    /\ heading = "none"
    /\ coordIn = NoField
    /\ coordOut = NoValue

\* runner's bike.update_loop() raises before a coroutine exists: no push runs
InitPushOff == uPc = "off"

Init == InitProgram /\ InitReading /\ InitPushOff

(***************************************************************************)
(* Session Manager: runner (__main__.py:174-194).                          *)
(***************************************************************************)
\* leaving `async with session.ws_connect(...) as socket` closes the socket
WsAfterExit == IF wsState = "open" THEN "closed" ELSE wsState

\* an exception no except clause of runner catches ends the coroutine
Uncaught(err) ==
    /\ smPc' = "crashed"
    /\ smErr' = err
    /\ wsState' = WsAfterExit

\* a runner that registers after every authentication failure
RegistersOnAnyReason(reason) == TRUE

\* except AuthError as e: register on "public key not on server", else return
RegistersOn(reason) == reason = NotOnServer

CatchAuthError(reason) ==
    /\ authErr' = reason
    /\ smErr' = "none"
    /\ wsState' = WsAfterExit
    /\ IF RegistersOn(reason)
          THEN /\ smPc' = "register"
               /\ regAttempts' = regAttempts + 1
          ELSE /\ smPc' = "done"
               /\ regAttempts' = regAttempts

\* except ClientConnectorError: logger.error; `await sleep(2)` with sleep being
\* time.sleep: the thread blocks 2 s, then awaiting None raises TypeError
CatchClientConnectorError == Uncaught("TypeError")

\* after bike_handler returns: bike.update_loop() without `delta` raises TypeError
AfterBikeHandler == Uncaught("TypeError")

\* while not QUIT_EVENT.is_set(): ... create_ticket issues POST /connect
RunnerCreateTicket ==
    /\ smPc = "loop" /\ ~quit
    /\ authAttempts < MaxAuth
    /\ smPc' = "ticket"
    /\ authAttempts' = authAttempts + 1
    /\ UNCHANGED <<notWeb, quit, lockPos, locked, anchor, bikeCoords, bikeSocket, smErr, authErr,
                   regAttempts, wsState, netUp, inbox, framesIn, msg, sent>>

\* the loop condition fails: runner returns
RunnerExit ==
    /\ smPc = "loop" /\ quit
    /\ smPc' = "done"
    /\ UNCHANGED <<notWeb, quit, lockPos, locked, anchor, bikeCoords, bikeSocket, smErr, authErr,
                   authAttempts, regAttempts, wsState, netUp, inbox, framesIn, msg, sent>>

\* create_ticket (__main__.py:111-121) gets its response, or cannot connect
TicketRaisesAuthError(resp) == resp.status # 200 /\ resp.reason = "Identity not recognized."

TicketAnswer ==
    /\ smPc = "ticket"
    /\ \/ \E resp \in TicketResponses :
            IF TicketRaisesAuthError(resp)
               THEN CatchAuthError(NotOnServer)
               ELSE /\ smPc' = "ws_connect"     \* challenge read and signed
                    /\ UNCHANGED <<smErr, authErr, regAttempts, wsState>>
       \/ CatchClientConnectorError /\ UNCHANGED <<authErr, regAttempts>>
    /\ UNCHANGED <<notWeb, quit, lockPos, locked, anchor, bikeCoords, bikeSocket, authAttempts,
                   netUp, inbox, framesIn, msg, sent>>

\* a handshake that sends the signature first
HandshakeSwapped == <<SignatureBytes, PublicKeyBytes>>

\* send_bytes(bike.public_key.to_bytes()); send_bytes(signed_challenge)
Handshake == <<PublicKeyBytes, SignatureBytes>>

\* bike_handler (__main__.py:129-131): the socket opens and the public key and the
\* signature are sent, or the connection cannot be made
WsConnect ==
    /\ smPc = "ws_connect"
    /\ \/ /\ smPc' = "confirm"
          /\ wsState' = "open"
          /\ netUp' = TRUE
          /\ inbox' = <<>>
          /\ sent' = Handshake
          /\ UNCHANGED smErr
       \/ CatchClientConnectorError /\ UNCHANGED <<netUp, inbox, sent>>
    /\ UNCHANGED <<notWeb, quit, lockPos, locked, anchor, bikeCoords, bikeSocket, authErr, authAttempts,
                   regAttempts, framesIn, msg>>

\* "fail" in confirmation
SignalsFailure(conf) == \E i \in 1..Len(conf) : conf[i] = "fail"

\* bike_handler (__main__.py:132-139): the confirmation arrives
Confirmation ==
    /\ smPc = "confirm"
    /\ IF ~netUp
          THEN \* receive_str on a lost connection gets a non-text message
               /\ Uncaught("TypeError")
               /\ UNCHANGED <<authErr, regAttempts, bikeSocket, sent>>
          ELSE \E conf \in Confirmations :
               IF SignalsFailure(conf)
                  THEN IF Len(conf) < 2
                          THEN \* confirmation.split(":")[1]
                               /\ Uncaught("IndexError")
                               /\ UNCHANGED <<authErr, regAttempts, bikeSocket, sent>>
                          ELSE /\ CatchAuthError(conf[2])
                               /\ UNCHANGED <<bikeSocket, sent>>
                  ELSE /\ sent' = Append(sent, LockedNotice(locked))
                       /\ bikeSocket' = "ws"
                       /\ smPc' = "recv"
                       /\ UNCHANGED <<smErr, authErr, regAttempts, wsState>>
    /\ UNCHANGED <<notWeb, quit, lockPos, locked, anchor, bikeCoords, authAttempts, netUp, inbox,
                   framesIn, msg>>

\* register_bike (__main__.py:159-171) gets its response, or cannot connect;
\* back in runner the except clause ends and the loop goes round
RegisterAnswer ==
    /\ smPc = "register"
    /\ \/ /\ smPc' = "loop"
          /\ authErr' = "none"
          /\ UNCHANGED <<smErr, wsState>>
       \/ \* raised inside the except clause: no handler of runner applies
          /\ Uncaught("ClientConnectorError")
          /\ UNCHANGED authErr
    /\ UNCHANGED <<notWeb, quit, lockPos, locked, anchor, bikeCoords, bikeSocket, authAttempts,
                   regAttempts, netUp, inbox, framesIn, msg, sent>>

(***************************************************************************)
(* Protocol Engine: Bike.handle_request / handle_response / lock / unlock  *)
(* (bike.py:29-32, 43-75).                                                 *)
(***************************************************************************)
\* self.commands
Commands == {"lock", "unlock"}

\* a lock handler that assigns the flag the wrong way round
CommandLockedInverted(method) == method = "unlock"

\* the value lock / unlock assigns to self.locked
CommandLocked(method) == method = "lock"

\* the "result" lock / unlock puts in its Response
CommandResult(method) == method = "lock"

\* a Response that does not echo the request's id
ReplyIdConstant(o) == 0

\* the "id" of the Response: request_id, i.e. valid_data["id"]
ReplyId(o) == IntFieldLoad(o.id)

\* socket.send_json goes through only on an open socket with a live transport
SendOk == bikeSocket = "ws" /\ wsState = "open" /\ netUp

\* self.commands[method](valid_data["id"]): assign self.locked, then send the Response
RunCommand(o) ==
    /\ locked' = CommandLocked(o.method.s)
    /\ lockPos' = IF o.method.s = "lock" THEN gpsPos ELSE lockPos
    /\ IF SendOk
          THEN /\ sent' = Append(sent, Response(ReplyId(o), CommandResult(o.method.s)))
               /\ UNCHANGED <<smPc, smErr, wsState>>
          ELSE /\ Uncaught("ConnectionResetError")
               /\ UNCHANGED sent

\* nothing happens and the receive loop goes on
Dropped == UNCHANGED <<locked, lockPos, sent, smPc, smErr, wsState>>

\* a handler that never rejects what the schema refuses
RequestNeverRejected(o) == FALSE

\* valid_data = JsonRPCRequest().load(data) raised ValidationError
RequestRejected(o) == ~JsonRPCRequestValid(o)

\* a table that has an entry for every method
RoutableAlways(o) == TRUE

\* valid_data["method"] in self.commands
Routable(o) == o.method.s \in Commands

HandleRequest(o) ==
    IF RequestRejected(o)
       THEN Dropped
       ELSE IF Routable(o)
               THEN IF o.id = Absent
                       THEN \* valid_data["id"]: KeyError
                            /\ Uncaught("KeyError")
                            /\ UNCHANGED <<locked, lockPos, sent>>
                       ELSE RunCommand(o)
               ELSE Dropped

\* JsonRPCResponse().load(data), then nothing either way
HandleResponse(o) == Dropped

(***************************************************************************)
(* bike_handler's receive loop (__main__.py:140-152).                      *)
(***************************************************************************)
\* "method" in data
HasMethod(o) == o.method # Absent

Dispatch(f) ==
    IF f.type # "TEXT"
       THEN Dropped /\ called' = "none"
       ELSE IF f.body = "unparsable"
               THEN Dropped /\ called' = "none"     \* msg.json() raised: continue
               ELSE IF f.body = "number"
                       THEN \* "method" in 5: TypeError
                            /\ Uncaught("TypeError")
                            /\ called' = "none"
                            /\ UNCHANGED <<locked, lockPos, sent>>
                       ELSE IF HasMethod(f.obj)
                               THEN HandleRequest(f.obj) /\ called' = "handle_request"
                               ELSE HandleResponse(f.obj) /\ called' = "handle_response"

\* the loop reads the next frame and handles it
Receive ==
    /\ smPc = "recv"
    /\ inbox # <<>>
    /\ Head(inbox).type # "CLOSE"
    /\ msg' = Head(inbox)
    /\ inbox' = Tail(inbox)
    /\ Dispatch(Head(inbox))
    /\ UNCHANGED <<gpsVars, geoVars, gpsPos, handlerVars, fnVars, pushVars, quit, anchor,
                   bikeCoords, bikeSocket, authErr, authAttempts, regAttempts, netUp,
                   framesIn>>

\* the transport is gone, or the backend closed: `async for` ends
ChannelEnded ==
    \/ inbox = <<>> /\ ~netUp
    \/ inbox # <<>> /\ Head(inbox).type = "CLOSE"

\* the loop ends, bike_handler returns and runner goes on at line 184
ReceiveEnd ==
    /\ smPc = "recv"
    /\ ChannelEnded
    /\ inbox' = <<>>
    /\ AfterBikeHandler
    /\ UNCHANGED <<notWeb, quit, lockPos, locked, anchor, bikeCoords, bikeSocket, authErr, authAttempts,
                   regAttempts, netUp, framesIn, msg, sent>>

(***************************************************************************)
(* Environment: the backend, the network, the operator's signal.           *)
(***************************************************************************)
\* the backend sends a frame on the authenticated channel
ServerSend ==
    /\ smPc = "recv" /\ netUp /\ wsState = "open"
    /\ Len(inbox) < MaxInbox
    /\ framesIn < MaxFrames
    /\ \A i \in 1..Len(inbox) : inbox[i].type # "CLOSE"
    /\ \E f \in Frames : inbox' = Append(inbox, f)
    /\ framesIn' = framesIn + 1
    /\ UNCHANGED <<notWeb, quit, lockPos, locked, anchor, bikeCoords, bikeSocket, smPc, smErr, authErr,
                   authAttempts, regAttempts, wsState, netUp, msg, sent>>

\* the connection under the websocket is lost
NetDrop ==
    /\ wsState = "open" /\ netUp
    /\ netUp' = FALSE
    /\ UNCHANGED <<notWeb, quit, lockPos, locked, anchor, bikeCoords, bikeSocket, smPc, smErr, authErr,
                   authAttempts, regAttempts, wsState, inbox, framesIn, msg, sent>>

\* SIGINT / SIGTERM: handler.__call__ sets QUIT_EVENT (__main__.py:207-208)
Signal ==
    /\ ~quit /\ hPc = "idle"
    /\ quit' = TRUE
    /\ hPc' = "join"
    /\ UNCHANGED <<webVars, gpsVars, geoVars, gpsPos, ledOpen, fnVars, pushVars>>

\* handler.__call__ after QUIT_EVENT.set(): every thread is joined, then the LED
\* and the serial handle are released (__main__.py:209-213)
ThreadsEnded ==
    /\ smPc \in {"done", "crashed"}
    /\ pPc \in {"done", "crashed"}
    /\ lPc \in {"done", "crashed"}
    /\ gPc = "done"

HandlerJoin ==
    /\ hPc = "join"
    /\ ThreadsEnded
    /\ hPc' = "done"
    /\ ledOpen' = FALSE
    /\ serialOpen' = FALSE
    /\ UNCHANGED <<quit, webVars, geoVars, gpsPos, fnVars, pushVars, pollingVars, lightingVars,
                   gpsStatus, gpsLock, wire>>

NextWeb ==
    \/ RunnerCreateTicket
    \/ RunnerExit
    \/ TicketAnswer
    \/ WsConnect
    \/ Confirmation
    \/ RegisterAnswer
    \/ Receive
    \/ ReceiveEnd
    \/ ServerSend
    \/ NetDrop
    \/ Signal

SpecWeb == Init /\ [][NextWeb]_vars

(***************************************************************************)
(* GPS Reader: FONA808.get_gps_status / get_location (fona808.py:124-159). *)
(***************************************************************************)
\* a lock that anyone may take at any time
CanAcquireAlways(holder) == TRUE

\* `with self._lock:` is entered only when nobody holds the lock
CanAcquire(holder) == holder = "free"

\* an unrecognised response resets the status
ClassifyResetting(lines, prior) ==
    IF "Location Not Fix" \in lines THEN "NO_FIX"
    ELSE IF "Location 2D Fix" \in lines THEN "FIX_2D"
    ELSE IF "Location 3D Fix" \in lines THEN "FIX_3D"
    ELSE "UNKNOWN"

\* get_gps_status, lines 130-137: the if / elif chain over the response
Classify(lines, prior) ==
    IF "Location Unknown" \in lines THEN "UNKNOWN"
    ELSE IF "Location Not Fix" \in lines THEN "NO_FIX"
    ELSE IF "Location 2D Fix" \in lines THEN "FIX_2D"
    ELSE IF "Location 3D Fix" \in lines THEN "FIX_3D"
    ELSE prior

\* a get_location that never checks the status
HasFixAlways(st) == TRUE

\* get_location, line 149: self._status in GPSStatus.locked_states()
HasFix(st) == st \in LockedStates

(***************************************************************************)
(* handle_gps_polling (__main__.py:71-83).                                 *)
(***************************************************************************)
\* `if GPS_STATUS.NO_FIX:` looks the member NO_FIX up through the member st;
\* an Enum member is truthy, so the branch is taken whatever st is
NoFixBranch(st) == "NO_FIX" \in GPSStatus

\* a loop that also stops once the Session Manager has ended
LoopGoesOnWhileRunnerLives(q) == ~q /\ smPc \notin {"done", "crashed"}

\* the test of the threads' loops: not QUIT_EVENT.is_set()
LoopGoesOn(q) == ~q

\* while not QUIT_EVENT.is_set(): ... ; after the loop GPS_MODULE.close()
PollingLoop ==
    /\ pPc = "loop"
    /\ IF LoopGoesOn(quit)
          THEN pPc' = "acquire" /\ UNCHANGED serialOpen
          ELSE pPc' = "done" /\ serialOpen' = FALSE
    /\ UNCHANGED <<quit, webVars, geoVars, gpsPos, handlerVars, fnVars, pushVars, lightingVars, gpsStatus, gpsLock,
                   wire, pErr, pLines, GPS_STATUS, GPSLOCATION>>

\* get_gps_status: with self._lock
PollingAcquire ==
    /\ pPc = "acquire"
    /\ CanAcquire(gpsLock)
    /\ gpsLock' = "polling"
    /\ pPc' = "write"
    /\ UNCHANGED <<quit, webVars, geoVars, gpsPos, handlerVars, fnVars, pushVars, lightingVars, gpsStatus, serialOpen,
                   wire, pErr, pLines, GPS_STATUS, GPSLOCATION>>

\* self._serial.write(b"AT+CGPSSTATUS?\n")
PollingWrite ==
    /\ pPc = "write"
    /\ IF serialOpen
          THEN /\ wire' = Append(wire, "CGPSSTATUS")
               /\ pPc' = "read"
               /\ UNCHANGED <<gpsLock, pErr>>
          ELSE /\ pPc' = "crashed"
               /\ pErr' = "PortNotOpenError"
               /\ gpsLock' = "free"
               /\ UNCHANGED wire
    /\ UNCHANGED <<quit, webVars, geoVars, gpsPos, handlerVars, fnVars, pushVars, lightingVars, gpsStatus, serialOpen,
                   pLines, GPS_STATUS, GPSLOCATION>>

\* lines = self._serial.read_all(); the with block ends
PollingRead ==
    /\ pPc = "read"
    /\ IF serialOpen
          THEN /\ \E r \in SUBSET Markers : pLines' = r
               /\ wire' = <<>>
               /\ pPc' = "classify"
               /\ UNCHANGED pErr
          ELSE /\ pPc' = "crashed"
               /\ pErr' = "PortNotOpenError"
               /\ UNCHANGED <<wire, pLines>>
    /\ gpsLock' = "free"
    /\ UNCHANGED <<quit, webVars, geoVars, gpsPos, handlerVars, fnVars, pushVars, lightingVars, gpsStatus, serialOpen,
                   GPS_STATUS, GPSLOCATION>>

\* the status is classified and returned; GPS_STATUS = ...; the branch; sleep
PollingClassify ==
    /\ pPc = "classify"
    /\ gpsStatus' = Classify(pLines, gpsStatus)
    /\ GPS_STATUS' = gpsStatus'
    /\ pPc' = IF NoFixBranch(gpsStatus') THEN "loop" ELSE "location"
    /\ UNCHANGED <<quit, webVars, geoVars, gpsPos, handlerVars, fnVars, pushVars, lightingVars, gpsLock, serialOpen,
                   wire, pErr, pLines, GPSLOCATION>>

(***************************************************************************)
(* handle_lighting (__main__.py:86-108): `if True:` calls get_location.    *)
(***************************************************************************)
\* the loop test, then get_location up to its status check
LightingLoop ==
    /\ lPc = "loop"
    /\ IF quit
          THEN lPc' = "done" /\ UNCHANGED lErr
          ELSE IF HasFix(gpsStatus)
                  THEN lPc' = "acquire" /\ UNCHANGED lErr
                  ELSE \* raise GPSLockError: nothing in handle_lighting catches it
                       lPc' = "crashed" /\ lErr' = "GPSLockError"
    /\ UNCHANGED <<quit, webVars, geoVars, gpsPos, handlerVars, fnVars, pushVars, readerVars, pollingVars, lReading>>

\* get_location: with self._lock
LightingAcquire ==
    /\ lPc = "acquire"
    /\ CanAcquire(gpsLock)
    /\ gpsLock' = "lighting"
    /\ lPc' = "write"
    /\ UNCHANGED <<quit, webVars, geoVars, gpsPos, handlerVars, fnVars, pushVars, pollingVars, gpsStatus, serialOpen,
                   wire, lErr, lReading>>

\* self._serial.write(b"AT+CGPSINF=0\n")
LightingWrite ==
    /\ lPc = "write"
    /\ IF serialOpen
          THEN /\ wire' = Append(wire, "CGPSINF")
               /\ lPc' = "read"
               /\ UNCHANGED <<gpsLock, lErr>>
          ELSE /\ lPc' = "crashed"
               /\ lErr' = "PortNotOpenError"
               /\ gpsLock' = "free"
               /\ UNCHANGED wire
    /\ UNCHANGED <<quit, webVars, geoVars, gpsPos, handlerVars, fnVars, pushVars, pollingVars, gpsStatus, serialOpen,
                   lReading>>

\* the four readline calls and the end of the with block; GPSReading(resp) parses
\* the line or raises; back in handle_lighting the reading is printed and
\* `bike.locked == true` raises NameError
LightingRead ==
    /\ lPc = "read"
    /\ lPc' = "crashed"
    /\ gpsLock' = "free"
    /\ IF serialOpen
          THEN /\ wire' = <<>>
               /\ \/ lReading' = gpsPos /\ lErr' = "NameError"
                  \/ lErr' = "ValueError" /\ UNCHANGED lReading
          ELSE /\ lErr' = "PortNotOpenError"
               /\ UNCHANGED <<wire, lReading>>
    /\ UNCHANGED <<quit, webVars, geoVars, gpsPos, handlerVars, fnVars, pushVars, pollingVars, gpsStatus, serialOpen>>

\* the steps of the handle_gps_polling thread
NextPolling ==
    \/ PollingLoop
    \/ PollingAcquire
    \/ PollingWrite
    \/ PollingRead
    \/ PollingClassify

NextReader ==
    \/ PollingLoop
    \/ PollingAcquire
    \/ PollingWrite
    \/ PollingRead
    \/ PollingClassify
    \/ LightingLoop
    \/ LightingAcquire
    \/ LightingWrite
    \/ LightingRead

(***************************************************************************)
(* Geofence Monitor: GPS_update (__main__.py:216-230) and Bike.haversine   *)
(* (bike.py:101-115).                                                      *)
(***************************************************************************)
\* names bound at module level in __main__.py (lines 12-46, 155-216)
ModuleGlobals == {"GPS_MODULE", "GPS_STATUS", "status_led", "bike", "GPSLOCATION",
                  "URL", "QUIT_EVENT"}
\* attributes of a GPSReading (fona808.py:10-16)
ReadingFields == {"longitude", "latitude", "altitude", "utc_time",
                  "satellites_in_view", "speed", "course"}
\* methods of Bike (bike.py:37-115)
BikeMethods == {"public_key", "sign", "lock", "unlock", "handle_request",
                "handle_response", "update_loop", "updateCoordinates", "haversine"}
\* the name `reading` is only annotated (__main__.py:34), never assigned
ReadingGlobal == NoPos

\* def haversine(lon1, lat1, lon2, lat2): four parameters, no self
HaversineParams == 4
\* bike.haversine(a, b, c, d): the bound call passes bike and four arguments
HaversineArgsPassed == 5
\* 6371 km * pi / 180 per degree, for a hundredth of a degree, in metres
MetresPerUnit == 1112
\* the alert threshold of GPS_update, in km
ThresholdKm == 5

\* haversine(lon1, lat1, lon2, lat2) > km, for points close to the equator
HaversineOver(lon1, lat1, lon2, lat2, km) ==
    ((lon2 - lon1) * (lon2 - lon1) + (lat2 - lat1) * (lat2 - lat1))
        * MetresPerUnit * MetresPerUnit > (km * 1000) * (km * 1000)

\* the try body raises, and `except Exception` prints and continues
GeoTickRaises ==
    \/ "GPSLocation" \notin ModuleGlobals                 \* print(GPSLocation)
    \/ /\ locked
       /\ \/ anchor = NoPos                               \* bike.lockedLattitude
          \/ "reading" \notin ModuleGlobals
          \/ "lattitude" \notin ReadingFields
          \/ HaversineArgsPassed # HaversineParams
    \/ /\ ~locked
       /\ \/ "update_coordinates" \notin BikeMethods
          \/ "reading" \notin ModuleGlobals
          \/ "lattitude" \notin ReadingFields

\* a handler that lets the exception end the thread
ExceptEndsLoop == "done"

\* except Exception: print('co-ordinates not found'); continue
ExceptContinues == "loop"

\* while not QUIT_EVENT.is_set(): sleep(300)
GeoLoop ==
    /\ gPc = "loop"
    /\ gPc' = IF LoopGoesOn(quit) THEN "sleep" ELSE "done"
    /\ UNCHANGED <<quit, webVars, gpsVars, gpsPos, handlerVars, fnVars, pushVars, alerts, ticks>>

\* one tick: the try block after the sleep
GeoTick ==
    /\ gPc = "sleep"
    /\ IF GeoTickRaises
          THEN gPc' = ExceptContinues /\ UNCHANGED <<alerts, bikeCoords>>
          ELSE IF locked
                  THEN /\ gPc' = "loop"
                       /\ alerts' =
                            IF /\ HaversineOver(anchor[2], anchor[1],
                                                ReadingGlobal[1], ReadingGlobal[2],
                                                ThresholdKm)
                               /\ alerts < MaxAlerts
                               THEN alerts + 1 ELSE alerts
                       /\ UNCHANGED bikeCoords
                  ELSE /\ gPc' = "loop"
                       /\ bikeCoords' = ReadingGlobal
                       /\ UNCHANGED alerts
    /\ ticks' = IF ticks < MaxTicks THEN ticks + 1 ELSE ticks
    /\ UNCHANGED <<quit, gpsVars, gpsPos, handlerVars, fnVars, pushVars, locked, anchor, bikeSocket, smPc, smErr,
                   authErr, authAttempts, regAttempts, wsState, netUp, inbox, framesIn,
                   msg, sent, lockPos, called>>

NextGeo ==
    \/ GeoLoop
    \/ GeoTick

\* the bike is moved
Move ==
    /\ \E p \in Positions \ {gpsPos} : gpsPos' = p
    /\ UNCHANGED <<quit, webVars, gpsVars, geoVars, handlerVars, fnVars, pushVars>>

SpecGPS == Init /\ [][NextReader \/ Signal \/ Move]_vars

SpecGeo == Init /\ [][NextWeb \/ NextGeo \/ Move]_vars

\* the Session Manager and the Geofence Monitor, the bike staying where it is
SpecMonitor == Init /\ [][NextWeb \/ NextGeo]_vars

\* the runner's steps up to the receive loop, with a backend that stays silent
\* once the session is up and a connection that holds
NextAuth ==
    \/ RunnerCreateTicket
    \/ RunnerExit
    \/ TicketAnswer
    \/ WsConnect
    \/ Confirmation
    \/ RegisterAnswer

\* the runner's own steps
NextRunner ==
    \/ NextAuth
    \/ Receive
    \/ ReceiveEnd

\* the runner is scheduled: a step it can take is taken
SpecWebLive == SpecWeb /\ WF_vars(NextRunner)

\* the runner, the polling thread and the Geofence Monitor
SpecStale == Init /\ [][NextAuth \/ NextPolling \/ NextGeo \/ Signal]_vars

\* all four threads and the shutdown handler
SpecThreads == Init /\ [][NextAuth \/ NextReader \/ NextGeo \/ Signal \/ HandlerJoin]_vars

(***************************************************************************)
(* GPSReading's functions on inputs of their own: a reading is built from  *)
(* a course, or from a coordinate field, and the function is applied.      *)
(***************************************************************************)
programVars == <<quit, webVars, gpsVars, geoVars, gpsPos, handlerVars, pushVars>>

InitHeading ==
    /\ InitProgram /\ InitPushOff
    /\ course \in 0..FullCircle
    /\ heading = "none"
    /\ coordIn = NoField
    /\ coordOut = NoValue

\* reading.heading
ApplyHeading ==
    /\ heading = "none"
    /\ heading' = Heading(course)
    /\ UNCHANGED <<programVars, course, coordIn, coordOut>>

SpecHeading == InitHeading /\ [][ApplyHeading]_vars

InitParse ==
    /\ InitProgram /\ InitPushOff
    /\ course = 0
    /\ heading = "none"
    /\ coordIn \in CoordinateFields
    /\ coordOut = NoValue

\* self.longitude = self._parse_longitude(longitude), and the same for latitude
ApplyParse ==
    /\ coordOut = NoValue
    /\ coordOut' = ParseCoordinate(coordIn)
    /\ UNCHANGED <<programVars, course, heading, coordIn>>

SpecParse == InitParse /\ [][ApplyParse]_vars

(***************************************************************************)
(* Bike.update_loop (bike.py:78-93), run as a task of the event loop next  *)
(* to bike_handler.  runner's own call passes no delta and never creates   *)
(* the task, so the loop is driven here from a state in which the task has *)
(* been created with a delta; updateCoordinates is its caller's to call.   *)
(***************************************************************************)
\* the update_loop task has been created and is at the top of `while True`
InitPush == InitProgram /\ InitReading /\ uPc = "loop"

\* the location_update Notification; its params are not compared by any property
LocationUpdate == Out("location_update", 0, FALSE)

PushesSent == Len(SelectSeq(sent, LAMBDA e : e.kind = "location_update"))

CanPushAlways(sock, state) == TRUE

\* if self.socket is not None and not self.socket.closed
CanPush(sock, state) == sock # "None" /\ state # "closed"

\* one pass of the loop body up to the sleep: the guard, then send_json on the
\* socket with the params read from self.lattitude / self.longitude
UpdateLoop ==
    /\ uPc = "loop"
    /\ IF CanPush(bikeSocket, wsState)
          THEN IF bikeSocket = "None" \/ bikeCoords = NoPos
                  THEN \* None has no send_json; lattitude/longitude were never set
                       uPc' = "crashed" /\ uErr' = "AttributeError" /\ UNCHANGED sent
                  ELSE IF wsState = "open" /\ netUp
                          THEN /\ sent' = Append(sent, LocationUpdate)
                               /\ uPc' = "sleep"
                               /\ UNCHANGED uErr
                          ELSE /\ uPc' = "crashed"
                               /\ uErr' = "ConnectionResetError"
                               /\ UNCHANGED sent
          ELSE uPc' = "sleep" /\ UNCHANGED <<uErr, sent>>
    /\ UNCHANGED <<quit, gpsVars, geoVars, gpsPos, handlerVars, fnVars, called, lockPos,
                   locked, anchor, bikeCoords, bikeSocket, smPc, smErr, authErr,
                   authAttempts, regAttempts, wsState, netUp, inbox, framesIn, msg>>

\* await sleep(delta.total_seconds()) returns
UpdateWake ==
    /\ uPc = "sleep"
    /\ PushesSent < MaxPushes
    /\ uPc' = "loop"
    /\ UNCHANGED <<quit, webVars, gpsVars, geoVars, gpsPos, handlerVars, fnVars, uErr>>

\* Bike.updateCoordinates(longitude, lattitude)
UpdateCoordinates ==
    /\ \E p \in Positions : bikeCoords' = p
    /\ bikeCoords' # bikeCoords
    /\ UNCHANGED <<quit, gpsVars, geoVars, gpsPos, handlerVars, fnVars, pushVars, called,
                   lockPos, locked, anchor, bikeSocket, smPc, smErr, authErr,
                   authAttempts, regAttempts, wsState, netUp, inbox, framesIn, msg, sent>>

NextPush ==
    \/ UpdateLoop
    \/ UpdateWake
    \/ UpdateCoordinates

SpecPush == InitPush /\ [][NextWeb \/ NextPush]_vars

Next ==
    \/ NextWeb
    \/ NextReader
    \/ NextGeo
    \/ Move

Spec == Init /\ [][Next]_vars

(***************************************************************************)
(* Claims about the Protocol Engine and the Session Manager (SpecWeb).     *)
(***************************************************************************)
\* the receive loop takes the frame at the head of the inbox in this step
ReadsFrame == smPc = "recv" /\ inbox # <<>> /\ Len(inbox') < Len(inbox)
                /\ Head(inbox).type # "CLOSE"

LockRequest(i) == TextObject(Obj(JStr("2.0"), JStr("lock"), JInt(i), Absent))

\* C1: handling a valid Request with method "lock" and id i while Bike.locked is
\* false, on an active Session, sets Bike.locked to true and sends exactly one
\* Response {jsonrpc: "2.0", id: i, result: true}.
C1_LockRepliesTrue ==
    [][\A i \in 1..2 :
         (ReadsFrame /\ Head(inbox) = LockRequest(i) /\ ~locked
            /\ bikeSocket = "ws" /\ wsState = "open" /\ netUp)
         => /\ locked' = TRUE
            /\ sent' = Append(sent, [kind |-> "response", id |-> i, result |-> TRUE])]_vars

\* C1 witness: an unlock was answered, then lock id 1 was answered with true
C1_Witness ==
    /\ msg = LockRequest(1)
    /\ locked
    /\ Len(sent) >= 2
    /\ sent[Len(sent) - 1] = [kind |-> "response", id |-> 2, result |-> FALSE]
    /\ sent[Len(sent)] = [kind |-> "response", id |-> 1, result |-> TRUE]

\* messages with no `method` field, and messages the Request shape refuses
NoMethodMessages == {RespOk, RespEmpty}
InvalidRequests == {ReqNoJsonrpc, ReqBadId, ReqMethodNotString}

\* C3: an inbound message that has no `method` field, or that fails validation
\* against the Request shape, is dropped: no Response is sent and Bike.locked, the
\* anchor and the session handle are unchanged (and the loop goes on).
C3_InvalidDropped ==
    [][(ReadsFrame /\ Head(inbox) \in NoMethodMessages \cup InvalidRequests)
         => /\ sent' = sent
            /\ locked' = locked
            /\ anchor' = anchor
            /\ bikeSocket' = bikeSocket
            /\ wsState' = wsState
            /\ smPc' = "recv"]_vars

\* C3 witness: an unlock lacking "jsonrpc" was read and the bike is still locked,
\* with nothing sent after the handshake
C3_Witness ==
    /\ msg = ReqNoJsonrpc
    /\ smPc = "recv"
    /\ locked
    /\ sent = <<PublicKeyBytes, SignatureBytes, LockedNotice(TRUE)>>

\* an authentication attempt fails with an AuthError in this step
AuthFails == smPc \in {"ticket", "confirm"} /\ authErr = "none" /\ authErr' # "none"
CountsUnchanged == authAttempts' = authAttempts /\ regAttempts' = regAttempts

C5_ReconnectAfterDisconnect ==
    [][(smPc = "recv" /\ smPc' # "recv"
          /\ (\/ inbox = <<>> /\ ~netUp
              \/ inbox # <<>> /\ Head(inbox).type = "CLOSE"))
         => smPc' = "loop"]_vars

\* C11 (as claimed): the Session Manager's loop ends only on shutdown or on an
\* authentication failure whose reason is not "public key not on server"; no
\* invalid message, unparsable frame, failed send or disconnect ends it.
C11_EndsOnlyOnShutdownOrAuth ==
    [][(smPc \notin {"done", "crashed"} /\ smPc' \in {"done", "crashed"})
         => \/ smPc = "loop" /\ quit /\ smPc' = "done"
            \/ AuthFails /\ authErr' # NotOnServer /\ smPc' = "done"]_vars

\* a location/battery Notification has been written to the channel
TelemetrySent == \E i \in 1..Len(sent) : sent[i].kind = "location_update"

\* C15 (as claimed): while the Session Manager is Connected with an open channel
\* the telemetry push runs beside the receive loop: whenever the session is
\* Connected, a location/battery Notification is sent unless the session ends.
C15_TelemetryWhileConnected ==
    [](smPc = "recv" => <>(smPc # "recv" \/ TelemetrySent))

\* what has been written to the channel starts with s
StartsWith(s) == Len(sent) >= Len(s) /\ SubSeq(sent, 1, Len(s)) = s

\* C21: within one connection attempt the public key is sent, then the signature,
\* then the confirmation is received; only if it does not signal failure is the
\* locked state pushed as the first Notification, the channel stored as the Bike's
\* Session and the receive loop entered; before that no frame reaches a handler
\* and no session handle is stored.
C21_HandshakeOrder ==
    /\ []((smPc = "confirm")
            => sent = <<PublicKeyBytes, SignatureBytes>> /\ bikeSocket = "None"
                 /\ msg = NoFrame /\ called = "none")
    /\ []((smPc = "recv" \/ bikeSocket # "None" \/ msg # NoFrame \/ called # "none")
            => /\ StartsWith(<<PublicKeyBytes, SignatureBytes>>)
               /\ Len(sent) >= 3 /\ sent[3].kind = "locked"
               /\ bikeSocket = "ws")
    /\ [][(smPc = "confirm" /\ smPc' # "confirm")
            => \/ /\ smPc' = "recv"
                  /\ sent' = Append(sent, [kind |-> "locked", id |-> 0, result |-> locked])
                  /\ bikeSocket' = "ws"
                  /\ authErr' = "none" /\ smErr' = "none"
               \/ /\ smPc' \in {"register", "done", "crashed"}
                  /\ authErr' # "none" \/ smErr' # "none"
                  /\ sent' = sent
                  /\ bikeSocket' = "None"]_vars

\* C21 witness: after key, signature and a success confirmation the locked state
\* was pushed, the channel stored, and a first Request handled and answered
C21_Witness ==
    /\ smPc = "recv"
    /\ bikeSocket = "ws"
    /\ msg = ReqLock1
    /\ called = "handle_request"
    /\ sent = <<PublicKeyBytes, SignatureBytes, LockedNotice(TRUE), Response(1, TRUE)>>

\* the integer a request's id stands for
IdOf(v) == IF v \in {JInt(1), JStr("1")} THEN 1 ELSE 2
Responses(s) == SelectSeq(s, LAMBDA e : e.kind = "response")

\* C7: every Response sent carries the id of the lock or unlock Request being
\* handled, its result is Bike.locked right after (true for lock, false for
\* unlock), and at most one Response is sent per Request.
C7_ResponseEchoesRequest ==
    [][/\ (smPc = "recv" /\ sent' # sent)
            => /\ ReadsFrame
               /\ Head(inbox).type = "TEXT" /\ Head(inbox).body = "object"
               /\ Head(inbox).obj.method \in {JStr("lock"), JStr("unlock")}
               /\ Head(inbox).obj.id \in {JInt(1), JInt(2), JStr("1"), JStr("2")}
               /\ locked' = (Head(inbox).obj.method = JStr("lock"))
               /\ sent' = Append(sent, [kind |-> "response",
                                        id |-> IdOf(Head(inbox).obj.id),
                                        result |-> locked'])
       /\ smPc # "recv" => Responses(sent') = Responses(sent)]_vars

\* C7 witness: two requests were answered, the first a lock with the id "2"
C7_Witness ==
    /\ Len(Responses(sent)) = 2
    /\ Responses(sent)[1] = [kind |-> "response", id |-> 2, result |-> TRUE]
    /\ Responses(sent)[2] = [kind |-> "response", id |-> 2, result |-> FALSE]
    /\ ~locked

\* valid Requests whose method the dispatch table does not have
UnroutableRequests == {ReqPing, ReqPingNoId}

\* C20: a valid Request whose method is not in the dispatch table (anything other
\* than lock and unlock) is dropped: no Response is sent, Bike state is unchanged
\* and the receive loop continues.
C20_UnknownMethodDropped ==
    [][(ReadsFrame /\ Head(inbox) \in UnroutableRequests)
         => /\ JsonRPCRequestValid(Head(inbox).obj)
            /\ Responses(sent') = Responses(sent)
            /\ Len(sent') = Len(sent)
            /\ UNCHANGED <<locked, anchor, bikeCoords, bikeSocket, lockPos>>
            /\ smPc' = "recv" /\ smErr' = "none" /\ wsState' = "open"]_vars

\* C20 witness: an unlock was answered, then a "ping" Request was read and
\* nothing more was sent
C20_Witness ==
    /\ msg \in UnroutableRequests
    /\ smPc = "recv"
    /\ ~locked
    /\ sent = <<PublicKeyBytes, SignatureBytes, LockedNotice(TRUE), Response(2, FALSE)>>

\* C22 (as claimed): every inbound text frame that parses is passed to exactly one
\* handler, handle_request if the payload has a `method` field and handle_response
\* otherwise; a non-text frame or a text frame that fails to parse is skipped: no
\* handler called, nothing sent, Bike state unchanged, the session still Connected.
C22_OneHandlerPerParsedFrame ==
    [][ReadsFrame
         => IF Head(inbox).type = "TEXT" /\ Head(inbox).body # "unparsable"
               THEN called' = IF Head(inbox).obj.method # Absent
                                 THEN "handle_request" ELSE "handle_response"
               ELSE /\ called' = "none"
                    /\ sent' = sent
                    /\ UNCHANGED <<locked, anchor, bikeCoords, bikeSocket>>
                    /\ smPc' = "recv" /\ wsState' = "open"]_vars

\* C23 (as claimed): the Bike's session handle is present only while the Session
\* Manager is Connected.
C23_SessionHandleOnlyWhileConnected == bikeSocket # "None" => smPc = "recv"

\* lock and unlock Requests that carry an id
CommandRequests == {ReqLock1, ReqUnlock2, ReqLockStrId}

\* C24 (as claimed): when a lock or unlock handler sends its Response while the
\* Session is absent or closed, the send is dropped: no error leaves
\* handle_request and the Session Manager does not end because of it.
C24_SendOnDeadSessionDropped ==
    [][(ReadsFrame /\ Head(inbox) \in CommandRequests
          /\ ~(bikeSocket = "ws" /\ wsState = "open" /\ netUp))
         => /\ smPc' = "recv"
            /\ smErr' = "none"
            /\ sent' = sent]_vars

\* C28 (as claimed): a message that names lock or unlock but carries no id is
\* handled without ending the receive loop: no Response is sent for it and the
\* session stays Connected.
C28_CommandWithoutIdHandled ==
    [][(ReadsFrame /\ Head(inbox) = ReqLockNoId)
         => /\ smPc' = "recv"
            /\ smErr' = "none"
            /\ wsState' = "open"
            /\ Responses(sent') = Responses(sent)]_vars

\* C29 (as claimed): the polling loop requests the location in the iteration that
\* polled a 2D or 3D fix, and does not request it when the polled status is not a
\* fix.
C29_FixLeadsToLocationRead ==
    [][(pPc = "classify" /\ pPc' # "classify")
         => (pPc' = "location" <=> gpsStatus' \in LockedStates)]_vars

\* a context is inside the guarded write/read section of a GPS operation
InGuardedSection == gpsLock # "free"

\* C30 (as claimed): the serial handle is closed only when no GPS operation is in
\* progress, and no serial command is attempted once the handle is closed.
C30_CloseOutsideGuardedSection ==
    /\ [][(serialOpen /\ ~serialOpen') => ~InGuardedSection]_vars
    /\ [](~serialOpen => pPc \notin {"write", "read"} /\ lPc \notin {"write", "read"})

\* the push loop finds the Bike's socket None or closed
ChannelAbsentOrClosed == bikeSocket = "None" \/ wsState = "closed"

\* C25: the telemetry push never sends on an absent or closed channel: an
\* iteration of update_loop that finds the socket None or closed sends nothing,
\* changes no Bike state, raises nothing and goes on to the sleep.
C25_PushSkippedWithoutChannel ==
    [][(uPc = "loop" /\ uPc' # "loop" /\ ChannelAbsentOrClosed)
         => /\ sent' = sent
            /\ uPc' = "sleep"
            /\ uErr' = "none"
            /\ UNCHANGED <<locked, anchor, bikeCoords, bikeSocket, lockPos>>]_vars

\* the handshake has gone out on the channel, no session is stored yet, and the
\* push loop has passed its guard without sending and is asleep
C25_Witness ==
    /\ uPc = "sleep"
    /\ bikeSocket = "None"
    /\ wsState = "open"
    /\ sent = Handshake

\* C2 (as claimed): once a lock Request was handled, and for as long as locked
\* stays true, the Bike's anchor is the position captured when it was handled.
C2_AnchorHeldWhileLocked == (locked /\ lockPos # NoPos) => anchor = lockPos

(***************************************************************************)
(* Claims about the Geofence Monitor (SpecGeo, SpecMonitor).               *)
(***************************************************************************)
\* C6 (as claimed): a tick with Bike.locked true and the bike farther than the
\* threshold (5 km) from where it was locked raises exactly one theft alert, and a
\* tick within the threshold raises none.
C6_AlertWhenFar ==
    [][(gPc = "sleep" /\ gPc' = "loop")
         => alerts' = alerts +
              (IF /\ locked /\ lockPos # NoPos
                  /\ HaversineOver(lockPos[1], lockPos[2], gpsPos[1], gpsPos[2], 5)
                  THEN 1 ELSE 0)]_vars

\* the Geofence Monitor finishes a pass through its try block in this step
TickDone == gPc = "sleep" /\ gPc' # "sleep"

\* C14: a Geofence Monitor tick that finds no GPS reading (none was ever stored)
\* raises no alert, changes no Bike state and does not end the monitor loop; the
\* monitor then sleeps for the next interval and ticks again.
C14_TickWithoutReadingIsNoOp ==
    [][/\ (TickDone /\ ReadingGlobal = NoPos)
            => /\ alerts' = alerts
               /\ UNCHANGED <<locked, anchor, bikeCoords, bikeSocket, lockPos, quit>>
               /\ gPc' = "loop"
       /\ (gPc = "loop" /\ gPc' # "loop" /\ ~quit) => gPc' = "sleep"]_vars

\* C14 witness: two ticks found no reading, the bike having been unlocked, and the
\* monitor is in its next interval
C14_Witness ==
    /\ ticks = 2
    /\ gPc = "sleep"
    /\ ~locked
    /\ alerts = 0
    /\ bikeCoords = NoPos

\* C19 (as claimed): a tick with Bike.locked false sets the bike's tracked last
\* known position to the position the GPS reports, and raises no theft alert.
C19_UnlockedTickTracksPosition ==
    [][(TickDone /\ ~locked) => bikeCoords' = gpsPos /\ alerts' = alerts]_vars

(***************************************************************************)
(* Claims about the GPS Reader (SpecGPS).                                  *)
(***************************************************************************)
\* C8: get_location fails with GPSLockError whenever the last known status is not
\* Fix2D or Fix3D, and then issues no command on the serial link and returns no
\* reading.
C8_NoFixRaisesLockError ==
    [][(lPc = "loop" /\ lPc' # "loop" /\ ~quit /\ gpsStatus \notin {"FIX_2D", "FIX_3D"})
         => /\ lPc' = "crashed"
            /\ lErr' = "GPSLockError"
            /\ wire' = wire
            /\ gpsLock' = gpsLock
            /\ lReading' = lReading]_vars

\* C8 witness: the status was polled as "no fix" and get_location then raised
C8_Witness ==
    /\ lErr = "GPSLockError"
    /\ gpsStatus = "NO_FIX"
    /\ lReading = NoPos

StatusFor(m) ==
    CASE m = "Location Unknown" -> "UNKNOWN"
      [] m = "Location Not Fix" -> "NO_FIX"
      [] m = "Location 2D Fix" -> "FIX_2D"
      [] m = "Location 3D Fix" -> "FIX_3D"

\* C9: get_gps_status returns Unknown, NoFix, Fix2D or Fix3D according to which of
\* the four literal substrings the response contains; when it contains none the
\* stored status is left as it was and that prior status is returned.
C9_StatusBySubstring ==
    [][(pPc = "classify" /\ pPc' # "classify")
         => /\ \A m \in Markers : pLines = {m} => gpsStatus' = StatusFor(m)
            /\ pLines # {} => gpsStatus' \in {StatusFor(m) : m \in pLines}
            /\ pLines = {} => gpsStatus' = gpsStatus
            /\ GPS_STATUS' = gpsStatus']_vars

\* C9 witness: a 3D fix was stored, and a later response with no marker left it
C9_Witness ==
    /\ pPc = "loop"
    /\ pLines = {}
    /\ gpsStatus = "FIX_3D"
    /\ GPS_STATUS = "FIX_3D"

\* C10: at most one execution context is between writing a command to the serial
\* link and finishing reading its response; the write/read sequences of the status
\* query and of the location query never interleave.
C10_SerialExclusive ==
    /\ ~(pPc \in {"write", "read"} /\ lPc \in {"write", "read"})
    /\ Len(wire) <= 1
    /\ pPc = "read" => wire = <<"CGPSSTATUS">>
    /\ lPc = "read" => wire = <<"CGPSINF">>

\* C10 witness: the polling thread awaits its response while the lighting thread
\* waits for the lock
C10_Witness ==
    /\ pPc = "read"
    /\ lPc = "acquire"
    /\ gpsLock = "polling"

(***************************************************************************)
(* Claims about the threads together (SpecStale, SpecThreads).             *)
(***************************************************************************)
\* the runner has returned on an authentication failure it does not recover from
RunnerEndedFatally == smPc = "done" /\ authErr \notin {"none", NotOnServer}

\* C12: when the Session Manager terminates on a fatal authentication failure the
\* shutdown signal is not raised by it and nothing of the GPS polling loop or the
\* Geofence Monitor changes; afterwards, as long as no signal arrives, neither has
\* ended and each has a further step to take.
C12_FatalAuthLeavesThreadsRunning ==
    /\ [][(AuthFails /\ authErr' # NotOnServer)
            => /\ smPc' = "done"
               /\ UNCHANGED <<quit, hPc, gpsVars, geoVars, locked, anchor, bikeCoords>>]_vars
    /\ []((RunnerEndedFatally /\ ~quit)
            => /\ pPc \notin {"done", "crashed"}
               /\ gPc # "done"
               /\ serialOpen
               /\ ENABLED NextPolling
               /\ ENABLED NextGeo)

\* C12 witness: the runner has ended on "signature rejected", no signal was raised,
\* and the monitor is in its third pass while the polling thread awaits a response
C12_Witness ==
    /\ RunnerEndedFatally
    /\ ~quit
    /\ ticks = 2 /\ gPc = "sleep"
    /\ pPc = "read" /\ GPS_STATUS = "FIX_3D"

\* a step some thread, or the handler, takes without anything arriving from the
\* backend on the open channel
ProgramStep ==
    \/ NextAuth
    \/ Receive
    \/ ReceiveEnd
    \/ NextReader
    \/ NextGeo
    \/ HandlerJoin

\* C13 (as claimed): once the signal handler has set QUIT_EVENT every loop comes to
\* observe it and exits, the runner also while it is in the receive loop, so the
\* handler's join completes: until it has, some thread or the handler itself has a
\* step to take; once it has, the LED and the serial handle are released.
C13_ShutdownDrains ==
    /\ hPc = "join" => ENABLED ProgramStep
    /\ hPc = "done" => ~ledOpen /\ ~serialOpen

(***************************************************************************)
(* Claims about GPSReading (SpecHeading, SpecParse).                       *)
(***************************************************************************)
\* the octant number of a heading, 0 for N up to 7 for NW
OctantOf(h) == (CHOOSE i \in 1..8 : Directions[i] = h) - 1
\* the angle between two courses, in half degrees
Apart(a, b) ==
    LET d == IF a >= b THEN (a - b) % 720 ELSE (b - a) % 720
    IN  IF d <= 360 THEN d ELSE 720 - d

\* C16: for every course in 0..360 degrees the heading is one of the eight octants
\* N, NE, E, SE, S, SW, W, NW and no octant is nearer to the course than it; course
\* 0 and course 360 give "N", course 180 gives "S" and course 45 gives "NE".
C16_HeadingNearestOctant ==
    heading # "none" =>
        /\ heading \in {"N", "NE", "E", "SE", "S", "SW", "W", "NW"}
        /\ \A k \in 0..7 : Apart(course, 90 * OctantOf(heading)) <= Apart(course, 90 * k)
        /\ course \in {0, 720} => heading = "N"
        /\ course = 360 => heading = "S"
        /\ course = 90 => heading = "NE"

\* C16 witness: course 360 has been given the heading "N"
C16_Witness == course = 720 /\ heading = "N"

\* the integer part and the fraction of a coordinate field, without the sign
Unsigned(t) == IF t[1] = "-" THEN Tail(t) ELSE t
IntegerPart(t) == SubSeq(Unsigned(t), 1, DotAt(Unsigned(t)) - 1)
FractionPart(t) == SubSeq(Unsigned(t), DotAt(Unsigned(t)) + 1, Len(Unsigned(t)))
\* the reference: degrees are the first 2 (latitude) or 3 (longitude) digits of
\* the integer part, minutes the rest; in minutes, times 10^(fraction digits)
ReferenceTotal(c) ==
    LET w == IF c.kind = "latitude" THEN 2 ELSE 3
        ip == IntegerPart(c.text)
        fr == FractionPart(c.text)
    IN  (IF c.text[1] = "-" THEN -1 ELSE 1)
          * (DigitsToInt(SubSeq(ip, 1, w)) * 60 * Pow10(Len(fr))
               + DigitsToInt(SubSeq(ip, w + 1, Len(ip)) \o fr))

\* C17 (as claimed): for every latitude DDMM.MMMMM and longitude DDDMM.MMMMM, with
\* or without a minus sign and with any number of fraction digits, the parser
\* takes the degrees from the fixed-width leading digits of the integer part and
\* the minutes from the remainder (so "-" + s gives the negation of s).
C17_ParseFixedWidthDegrees ==
    coordOut.set => /\ coordOut.scale = Len(FractionPart(coordIn.text))
                    /\ coordOut.total = ReferenceTotal(coordIn)

=============================================================================
